---- MODULE Spec2Model ----
(***************************************************************************)
(* DictionaryApp (src/MyApp/app/index.tsx): one React component with four  *)
(* state slots (word, definition, loading, error), one asynchronous        *)
(* operation fetchDefinition, and a render tree that is a function of the  *)
(* state.  A request is followed through its two suspension points:        *)
(* `await fetch(...)` and `await response.json()`.                         *)
(***************************************************************************)
EXTENDS Integers, Sequences, FiniteSets, TLC

VARIABLES
    word,        \* useState<string>(""): a sequence of one-character strings
    definition,  \* useState<ApiResponse | null>(null): a JSON value
    loading,     \* useState<boolean>(false)
    error,       \* useState<string>("")
    requests,    \* calls of fetchDefinition suspended at an await, by request number;
                 \* the server chooses the response whatever the URL, which is not kept
    issued,      \* number of fetch(...) calls made so far
    overlap,     \* history: the latest request was issued while another was outstanding
    last         \* history: the handler that ran last, with its input

vars == <<word, definition, loading, error, requests, issued, overlap, last>>

-----------------------------------------------------------------------------
(* Bounds *)

MaxLen == 2        \* longest query text typed
MaxRequests == 2   \* number of requests the user issues before stopping

-----------------------------------------------------------------------------
(* Texts *)

Chars == {" ", "a"}
Whitespace == {" "}

\* the texts one keystroke away from w: a character typed at the end, or the
\* last character deleted
Keystrokes(w) ==
    {Append(w, c) : c \in IF Len(w) < MaxLen THEN Chars ELSE {}}
        \cup (IF w = <<>> THEN {} ELSE {SubSeq(w, 1, Len(w) - 1)})

RECURSIVE TrimStart(_)
TrimStart(s) ==
    IF s # <<>> /\ Head(s) \in Whitespace THEN TrimStart(Tail(s)) ELSE s

RECURSIVE TrimEnd(_)
TrimEnd(s) ==
    IF s # <<>> /\ s[Len(s)] \in Whitespace
    THEN TrimEnd(SubSeq(s, 1, Len(s) - 1))
    ELSE s

\* A mutant of Trim: the text is taken as typed.
TrimOmitted(s) == s

\* word.trim()
Trim(s) == TrimEnd(TrimStart(s))

\* setError("Please enter a word.")
ValidationMessage == "Please enter a word."
\* (data as ApiError).title || "Could not find a definition."
FallbackMessage == "Could not find a definition."
\* setError("An error occurred. Please check your network connection.")
NetworkMessage == "An error occurred. Please check your network connection."

-----------------------------------------------------------------------------
(* JSON values: what response.json() resolves to, and what definition holds *)

Null == [t |-> "null"]

Definition1 == [definition |-> "a greeting", example |-> "hello there"]
Definition2 == [definition |-> "to greet"]

Meaning1 == [partOfSpeech |-> "noun", definitions |-> <<Definition1, Definition2>>]
Meaning2 == [partOfSpeech |-> "verb", definitions |-> <<Definition2>>]

Entry1 == [word |-> "hello", meanings |-> <<Meaning1>>]
Entry2 == [word |-> "hello", meanings |-> <<Meaning2>>]

Array(items) == [t |-> "array", items |-> items]
Object(fields) == [t |-> "object", fields |-> fields]

NotFound ==
    Object([title |-> "No Definitions Found", message |-> "m", resolution |-> "r"])
NoTitle == Object([message |-> "m", resolution |-> "r"])
EmptyTitle == Object([title |-> "", message |-> "m", resolution |-> "r"])

Bodies == {Null, Array(<<>>), Array(<<Entry1, Entry2>>), NotFound, NoTitle, EmptyTitle}

\* JavaScript truthiness of a JSON value: null is falsy, arrays and objects truthy
Truthy(j) == j.t # "null"

\* reading .title of a JSON value throws on null
TitleThrows(data) == data.t = "null"

\* A mutant of TitleOrFallback: `??` semantics, an empty title is kept.
TitleOrFallbackNullish(data) ==
    IF data.t = "object" /\ "title" \in DOMAIN data.fields
    THEN data.fields.title
    ELSE FallbackMessage

\* (data as ApiError).title || "Could not find a definition."
TitleOrFallback(data) ==
    IF data.t = "object" /\ "title" \in DOMAIN data.fields /\ data.fields.title # ""
    THEN data.fields.title
    ELSE FallbackMessage

-----------------------------------------------------------------------------
(* The state setters of fetchDefinition, on the record of the three slots *)

UI == [definition |-> definition, loading |-> loading, error |-> error]

\* if (!word.trim()) { setError("Please enter a word."); return; }
Rejects(w) == Trim(w) = <<>>

Invalid(ui) == [ui EXCEPT !.error = ValidationMessage]

\* setLoading(true); setDefinition(null); setError("");
Begin(ui) == [definition |-> Null, loading |-> TRUE, error |-> ""]

\* if (response.ok) setDefinition(data) else setError(title || fallback)
Interpret(ui, ok, data) ==
    IF ok
    THEN [ui EXCEPT !.definition = data]
    ELSE [ui EXCEPT !.error = TitleOrFallback(data)]

\* catch (err) { setError("An error occurred. ...") }
Catch(ui) == [ui EXCEPT !.error = NetworkMessage]

\* A mutant of Finally: the flag is not reset.
FinallyOmitted(ui) == ui

\* finally { setLoading(false) }
Finally(ui) == [ui EXCEPT !.loading = FALSE]

\* A mutant of Settle: the flag is reset at the end of the try block only.
SettleNoFinally(ui, thrown, ok, data) ==
    IF thrown \/ (~ok /\ TitleThrows(data))
    THEN Catch(ui)
    ELSE [Interpret(ui, ok, data) EXCEPT !.loading = FALSE]

\* the try / catch / finally of fetchDefinition after its awaits
Settle(ui, thrown, ok, data) ==
    IF thrown \/ (~ok /\ TitleThrows(data))
    THEN Finally(Catch(ui))
    ELSE Finally(Interpret(ui, ok, data))

Store(ui) ==
    /\ definition' = ui.definition
    /\ loading' = ui.loading
    /\ error' = ui.error

-----------------------------------------------------------------------------
(* The render tree below the search controls, as a sequence of nodes *)

\* {index + 1}. {def.definition}  and  {def.example && <Text>Example: ...</Text>}
DefinitionBlock(def, index) ==
    IF "example" \in DOMAIN def /\ def.example # ""
    THEN [number |-> index, text |-> def.definition, example |-> <<def.example>>]
    ELSE [number |-> index, text |-> def.definition, example |-> <<>>]

\* const renderDefinition = ({ item }) => ...
renderDefinition(item) ==
    [partOfSpeech |-> item.partOfSpeech,
     blocks |-> [i \in 1..Len(item.definitions) |->
                    DefinitionBlock(item.definitions[i], i)]]

\* data={definition[0]?.meanings}, each item through renderItem
FlatListItems(d) ==
    IF d.t = "array" /\ Len(d.items) > 0
    THEN [i \in 1..Len(d.items[1].meanings) |-> renderDefinition(d.items[1].meanings[i])]
    ELSE <<>>

\* {loading && <ActivityIndicator/>} {error && <Text/>} {definition && <FlatList/>}
Render(ui) ==
    (IF ui.loading THEN <<[node |-> "ActivityIndicator", text |-> "", items |-> <<>>]>>
     ELSE <<>>)
    \o (IF ui.error # "" THEN <<[node |-> "Text", text |-> ui.error, items |-> <<>>]>>
        ELSE <<>>)
    \o (IF Truthy(ui.definition)
        THEN <<[node |-> "FlatList", text |-> "", items |-> FlatListItems(ui.definition)]>>
        ELSE <<>>)

-----------------------------------------------------------------------------
(* History records *)

Event(kind, text, id, settle, ok, data, before) ==
    [kind |-> kind, word |-> text, id |-> id, settle |-> settle, ok |-> ok,
     data |-> data, issuedBefore |-> before]

Outstanding == DOMAIN requests

-----------------------------------------------------------------------------
(* Initial state and handlers *)

Init ==
    /\ word = <<>>
    /\ definition = Null
    /\ loading = FALSE
    /\ error = ""
    /\ requests = <<>>
    /\ issued = 0
    /\ overlap = FALSE
    /\ last = Event("mount", <<>>, 0, "none", FALSE, Null, 0)

\* onChangeText={setWord}
ChangeText(w) ==
    /\ word' = w
    /\ last' = Event("edit", <<>>, 0, "none", FALSE, Null, issued)
    /\ UNCHANGED <<definition, loading, error, requests, issued, overlap>>

\* const fetchDefinition = async () => { ... } up to the first await
fetchDefinition ==
    IF Rejects(word)
    THEN /\ Store(Invalid(UI))
         /\ overlap' = FALSE
         /\ last' = Event("submit", word, 0, "none", FALSE, Null, issued)
         /\ UNCHANGED <<word, requests, issued>>
    ELSE /\ issued < MaxRequests
         /\ Store(Begin(UI))
         /\ issued' = issued + 1
         /\ requests' = (issued + 1 :> [at |-> "fetch", ok |-> FALSE]) @@ requests
         /\ overlap' = (Outstanding # {})
         /\ last' = Event("submit", word, issued + 1, "none", FALSE, Null, issued)
         /\ UNCHANGED word

\* <TouchableOpacity onPress={fetchDefinition} disabled={loading}>
PressSearch ==
    /\ ~loading
    /\ fetchDefinition

\* <TextInput onSubmitEditing={fetchDefinition}>
SubmitEditing == fetchDefinition

\* await fetch(...) resolves with a response of some status
FetchResolves(id, ok) ==
    /\ id \in Outstanding
    /\ requests[id].at = "fetch"
    /\ requests' = [requests EXCEPT ![id] = [@ EXCEPT !.at = "json", !.ok = ok]]
    /\ last' = Event("response", <<>>, id, "none", ok, Null, issued)
    /\ UNCHANGED <<word, definition, loading, error, issued, overlap>>

Remove(id) == [i \in Outstanding \ {id} |-> requests[i]]

\* await fetch(...) rejects: catch, finally
FetchRejects(id) ==
    /\ id \in Outstanding
    /\ requests[id].at = "fetch"
    /\ Store(Settle(UI, TRUE, FALSE, Null))
    /\ requests' = Remove(id)
    /\ last' = Event("complete", <<>>, id, "rejected", FALSE, Null, issued)
    /\ UNCHANGED <<word, issued, overlap>>

\* await response.json() resolves with the parsed body
JsonResolves(id, data) ==
    /\ id \in Outstanding
    /\ requests[id].at = "json"
    /\ Store(Settle(UI, FALSE, requests[id].ok, data))
    /\ requests' = Remove(id)
    /\ last' = Event("complete", <<>>, id, "parsed", requests[id].ok, data, issued)
    /\ UNCHANGED <<word, issued, overlap>>

\* await response.json() rejects on a body that is not JSON: catch, finally
JsonRejects(id) ==
    /\ id \in Outstanding
    /\ requests[id].at = "json"
    /\ Store(Settle(UI, TRUE, requests[id].ok, Null))
    /\ requests' = Remove(id)
    /\ last' = Event("complete", <<>>, id, "unparsable", requests[id].ok, Null, issued)
    /\ UNCHANGED <<word, issued, overlap>>

Network ==
    \E id \in 1..MaxRequests :
        \/ \E ok \in BOOLEAN : FetchResolves(id, ok)
        \/ FetchRejects(id)
        \/ \E data \in Bodies : JsonResolves(id, data)
        \/ JsonRejects(id)

Next ==
    \/ \E w \in Keystrokes(word) : ChangeText(w)
    \/ PressSearch
    \/ SubmitEditing
    \/ Network

Spec == Init /\ [][Next]_vars

\* every issued request completes; the user issues at most MaxRequests requests
LiveSpec == Spec /\ WF_vars(Network)

-----------------------------------------------------------------------------
(* Properties *)

\* a text that is empty or consists of whitespace only
Blank(w) == \A i \in 1..Len(w) : w[i] \in Whitespace

Completed == last.kind = "complete"

\* C1: a submission of an empty or whitespace-only query issues no network
\* request and leaves the error state equal to "Please enter a word.".
C1_BlankSubmit ==
    (last.kind = "submit" /\ Blank(last.word)) =>
        /\ error = ValidationMessage
        /\ issued = last.issuedBefore
        /\ last.id = 0

\* a whitespace-only query was submitted while a request was outstanding
C1_Witness ==
    /\ last.kind = "submit"
    /\ last.word = <<" ", " ">>
    /\ Outstanding # {}
    /\ error = ValidationMessage

\* C2: in the state right after the completion handler of a request has run
\* (2xx, non-2xx or exception), the loading flag is false.
C2_LoadingFalseAfterCompletion == Completed => loading = FALSE

\* a request completed while another one, submitted in between, is outstanding
C2_Witness ==
    /\ Completed
    /\ last.id = 1
    /\ Outstanding = {2}
    /\ loading = FALSE

\* C3 as stated: after the handler of a 2xx response has run, the result is
\* the parsed body and the error is the empty string.
C3_ResultStoredErrorClear ==
    (Completed /\ last.settle = "parsed" /\ last.ok) =>
        /\ definition = last.data
        /\ error = ""

HasTitle(data) == data.t = "object" /\ "title" \in DOMAIN data.fields

C5_NetworkErrorResultNull ==
    (Completed /\ last.settle \in {"rejected", "unparsable"}) =>
        /\ error = NetworkMessage
        /\ definition = Null

Idle == ~loading /\ definition = Null /\ error = ""
Busy == loading /\ definition = Null /\ error = ""
Success == ~loading /\ definition # Null /\ error = ""
Failure == ~loading /\ definition = Null /\ error # ""

\* C6 as stated: every reachable state is idle, loading, success or error; a
\* non-null result and a non-empty error are never held together.
C6_SingleVariant == Idle \/ Busy \/ Success \/ Failure

\* what a request that ran alone would leave, given how it settled
Alone(ev) == Settle(Begin(UI), ev.settle # "parsed", ev.ok, ev.data)

\* C7 as stated: when two requests were outstanding at once and both have
\* completed, result and error are those determined by the response that
\* arrived later, alone.
C7_LastArrivalWins ==
    (Completed /\ overlap /\ Outstanding = {}) =>
        /\ definition = Alone(last).definition
        /\ error = Alone(last).error

\* C8: when every issued request completes and the user stops submitting, the
\* loading flag eventually becomes false and stays false, and it is never true
\* with no request outstanding.
C8_LoadingSettles ==
    /\ <>[](loading = FALSE)
    /\ [](Outstanding = {} => loading = FALSE)

\* the user has stopped, and overlapping requests have all completed
C8_Witness ==
    /\ issued = MaxRequests
    /\ overlap
    /\ Completed
    /\ Outstanding = {}
    /\ loading = FALSE

\* C9 as stated: the output is a single case of the state: nothing when idle,
\* only the spinner when loading, only the error line when the error is not
\* empty, otherwise only the list of the first entry's meanings.
C9_SingleCaseRender ==
    Render(UI) =
        IF Idle THEN <<>>
        ELSE IF loading THEN <<[node |-> "ActivityIndicator", text |-> "", items |-> <<>>]>>
        ELSE IF error # "" THEN <<[node |-> "Text", text |-> error, items |-> <<>>]>>
        ELSE <<[node |-> "FlatList", text |-> "", items |-> FlatListItems(definition)]>>

\* C10 as stated: while a request is outstanding the loading flag is true.
C10_OutstandingImpliesLoading == Outstanding # {} => loading = TRUE

====
